---- MODULE Spec2Model ----
(***************************************************************************)
(* Import cost calculator (App.tsx, ResultsTable.tsx, FileUpload.tsx).     *)
(*                                                                         *)
(* Two state machines share the variables below:                           *)
(*   Spec     calculateDistributedCosts run step by step on parsed input   *)
(*   SpecApp  the App component: file uploads, handleProcess and its       *)
(*            100 ms timer, with the parsers and the allocator applied     *)
(*            atomically when the timer fires                              *)
(* JavaScript numbers are modelled as exact rationals [n, d] in lowest     *)
(* terms; a division by zero yields the value NotANumber.                  *)
(***************************************************************************)
EXTENDS Integers, Sequences, FiniteSets, TLC

VARIABLES
    \* ---- calculateDistributedCosts (App.tsx 119-181) ----
    products,               \* argument: Product[]
    services,               \* argument: Service[]
    tempProcessedProducts,  \* let tempProcessedProducts
    ruleIndex,              \* position of specificTariffRules.forEach
    locals,                 \* the consts of the forEach iteration run last
    warnings,               \* console.warn calls, in order (the rule warned about)
    pc,                     \* position in calculateDistributedCosts
    \* ---- App component state (App.tsx 47-58) ----
    productsFileContent,
    servicesFileContent,
    processedProducts,
    error,
    isLoading,
    totalProductCost,
    totalServiceCost,
    totalGlobalCost,
    inputProducts,
    inputServices,
    timers,                 \* handleProcess invocations waiting in setTimeout(100)
    lastRun                 \* the handleProcess invocation that completed last

allocVars == <<products, services, tempProcessedProducts, ruleIndex, locals, warnings, pc>>
appVars == <<productsFileContent, servicesFileContent, processedProducts, error,
             isLoading, totalProductCost, totalServiceCost, totalGlobalCost,
             inputProducts, inputServices, timers, lastRun>>
vars == <<products, services, tempProcessedProducts, ruleIndex, locals, warnings, pc,
          productsFileContent, servicesFileContent, processedProducts, error,
          isLoading, totalProductCost, totalServiceCost, totalGlobalCost,
          inputProducts, inputServices, timers, lastRun>>

(***************************************************************************)
(* Bounds of the model.                                                    *)
(***************************************************************************)
MaxProducts == 2
MaxServices == 2

(***************************************************************************)
(* Numbers: exact rationals in lowest terms with a positive denominator.   *)
(***************************************************************************)
RECURSIVE GCD(_, _)
GCD(a, b) == IF b = 0 THEN a ELSE GCD(b, a % b)

Abs(x) == IF x < 0 THEN -x ELSE x

NotANumber == [n |-> 0, d |-> 0]

Norm(n, d) ==
    IF d = 0 THEN NotANumber
    ELSE LET g == GCD(Abs(n), Abs(d))
             s == IF d < 0 THEN -1 ELSE 1
         IN  [n |-> s * (n \div g), d |-> s * (d \div g)]

R(i) == [n |-> i, d |-> 1]
Zero == R(0)

IsNaN(x) == x.d = 0

RAdd(x, y) == IF IsNaN(x) \/ IsNaN(y) THEN NotANumber
              ELSE Norm(x.n * y.d + y.n * x.d, x.d * y.d)
RMul(x, y) == IF IsNaN(x) \/ IsNaN(y) THEN NotANumber
              ELSE Norm(x.n * y.n, x.d * y.d)
RDiv(x, y) == IF IsNaN(x) \/ IsNaN(y) \/ y.n = 0 THEN NotANumber
              ELSE Norm(x.n * y.d, x.d * y.n)
\* comparisons with NaN are false, as in JavaScript
RGt(x, y) == ~IsNaN(x) /\ ~IsNaN(y) /\ x.n * y.d > y.n * x.d
RGeq(x, y) == ~IsNaN(x) /\ ~IsNaN(y) /\ x.n * y.d >= y.n * x.d
RLt(x, y) == RGt(y, x)

(***************************************************************************)
(* Strings.                                                                *)
(***************************************************************************)
\* String.prototype.toLowerCase on the identifiers the model uses
toLowerCase(s) ==
    CASE s = "COMUN" -> "comun"
      [] s = "Comun" -> "comun"
      [] s = "T1" -> "t1"
      [] s = "T2" -> "t2"
      [] s = "T9" -> "t9"
      [] s = "A" -> "a"
      [] s = "B" -> "b"
      [] OTHER -> s

(***************************************************************************)
(* calculateDistributedCosts, App.tsx 119-181.                             *)
(***************************************************************************)
\* mutant: the total written over the unit cost of the copy
InitialProcessedProductOverwritten(p) ==
    [name |-> p.name, unitCost |-> RMul(p.unitCost, p.quantity), quantity |-> p.quantity,
     tariffRate |-> p.tariffRate,
     initialCost |-> RMul(p.unitCost, p.quantity),
     costAfterGeneralServices |-> RMul(p.unitCost, p.quantity),
     finalCost |-> RMul(p.unitCost, p.quantity),
     allocatedGeneralCostSum |-> Zero,
     allocatedSpecificCostSum |-> Zero]

\* products.map(p => ({...p, initialCost: p.unitCost * p.quantity, ...}))
InitialProcessedProduct(p) ==
    [name |-> p.name, unitCost |-> p.unitCost, quantity |-> p.quantity,
     tariffRate |-> p.tariffRate,
     initialCost |-> RMul(p.unitCost, p.quantity),
     costAfterGeneralServices |-> RMul(p.unitCost, p.quantity),
     finalCost |-> RMul(p.unitCost, p.quantity),
     allocatedGeneralCostSum |-> Zero,
     allocatedSpecificCostSum |-> Zero]

InitialProcessedProducts(ps) == [i \in 1..Len(ps) |-> InitialProcessedProduct(ps[i])]

\* arr.reduce((sum, x) => sum + x[field], 0)
RECURSIVE SumField(_, _)
SumField(seq, field) ==
    IF seq = <<>> THEN Zero
    ELSE RAdd(SumField(SubSeq(seq, 1, Len(seq) - 1), field), seq[Len(seq)][field])

\* mutant: the general marker compared without lower-casing
IsComunExact(s) == s.distributionRule = "comun"

IsComun(s) == toLowerCase(s.distributionRule) = "comun"

comunServices(svcs) == SelectSeq(svcs, IsComun)

totalComunServiceCost(svcs) == SumField(comunServices(svcs), "cost")

totalInitialProductValue(temp) == SumField(temp, "initialCost")

\* mutant: the general pool split evenly instead of by value
allocatedGeneralCostEvenly(p, temp, svcs) ==
    RDiv(totalComunServiceCost(svcs), R(Len(temp)))

\* the share of the general pool given to one product (line 137)
allocatedGeneralCost(p, temp, svcs) ==
    RMul(RDiv(p.initialCost, totalInitialProductValue(temp)), totalComunServiceCost(svcs))

\* mutant: line 141 left out, finalCost not updated in step 1
DistributeComunKeepsFinalCost(temp, svcs) ==
    IF RGt(totalComunServiceCost(svcs), Zero) /\ RGt(totalInitialProductValue(temp), Zero)
    THEN [i \in 1..Len(temp) |->
            [temp[i] EXCEPT
               !.costAfterGeneralServices =
                   RAdd(temp[i].costAfterGeneralServices, allocatedGeneralCost(temp[i], temp, svcs)),
               !.allocatedGeneralCostSum =
                   RAdd(temp[i].allocatedGeneralCostSum, allocatedGeneralCost(temp[i], temp, svcs))]]
    ELSE temp

\* mutant: an even split as a fallback when the total initial value is zero
DistributeComunEvenFallback(temp, svcs) ==
    IF RGt(totalComunServiceCost(svcs), Zero)
    THEN [i \in 1..Len(temp) |->
            LET a == IF RGt(totalInitialProductValue(temp), Zero)
                     THEN allocatedGeneralCost(temp[i], temp, svcs)
                     ELSE RDiv(totalComunServiceCost(svcs), R(Len(temp)))
            IN  [temp[i] EXCEPT
                   !.costAfterGeneralServices = RAdd(temp[i].costAfterGeneralServices, a),
                   !.finalCost = RAdd(temp[i].finalCost, a),
                   !.allocatedGeneralCostSum = RAdd(temp[i].allocatedGeneralCostSum, a)]]
    ELSE temp

\* Step 1 (lines 135-145)
DistributeComun(temp, svcs) ==
    IF RGt(totalComunServiceCost(svcs), Zero) /\ RGt(totalInitialProductValue(temp), Zero)
    THEN [i \in 1..Len(temp) |->
            [temp[i] EXCEPT
               !.costAfterGeneralServices =
                   RAdd(temp[i].costAfterGeneralServices, allocatedGeneralCost(temp[i], temp, svcs)),
               !.finalCost = RAdd(temp[i].finalCost, allocatedGeneralCost(temp[i], temp, svcs)),
               !.allocatedGeneralCostSum =
                   RAdd(temp[i].allocatedGeneralCostSum, allocatedGeneralCost(temp[i], temp, svcs))]]
    ELSE temp

\* Array.from(new Set(rules)): the distinct values in order of first occurrence
RECURSIVE Distinct(_)
Distinct(seq) ==
    IF seq = <<>> THEN <<>>
    ELSE LET front == Distinct(SubSeq(seq, 1, Len(seq) - 1))
             x == seq[Len(seq)]
         IN  IF \E i \in 1..Len(front) : front[i] = x THEN front ELSE Append(front, x)

\* lines 148-152
specificTariffRules(svcs) ==
    LET specific == SelectSeq(svcs, LAMBDA s : toLowerCase(s.distributionRule) # "comun")
    IN  Distinct([i \in 1..Len(specific) |-> specific[i].distributionRule])

\* mutant: the services of a rule matched without regard to case
servicesForThisRuleAnyCase(svcs, specificRule) ==
    SelectSeq(svcs, LAMBDA s : toLowerCase(s.distributionRule) = toLowerCase(specificRule))

\* lines 155-156
servicesForThisRule(svcs, specificRule) ==
    SelectSeq(svcs, LAMBDA s : s.distributionRule = specificRule)

totalCostForThisRule(svcs, specificRule) ==
    SumField(servicesForThisRule(svcs, specificRule), "cost")

\* line 158: the matching products, as the ascending positions of the objects
\* that tempProcessedProducts.filter returns (filter keeps references)
RECURSIVE matchingProducts(_, _)
matchingProducts(temp, specificRule) ==
    IF temp = <<>> THEN <<>>
    ELSE LET front == matchingProducts(SubSeq(temp, 1, Len(temp) - 1), specificRule)
         IN  IF temp[Len(temp)].tariffRate = specificRule
             THEN Append(front, Len(temp)) ELSE front

\* mutant: the base of the specific split taken from initialCost
totalBaseFromInitialCost(temp, specificRule) ==
    LET m == matchingProducts(temp, specificRule)
    IN  SumField([k \in 1..Len(m) |-> temp[m[k]]], "initialCost")

\* line 166
totalBaseCostForSpecificDistribution(temp, specificRule) ==
    LET m == matchingProducts(temp, specificRule)
    IN  SumField([k \in 1..Len(m) |-> temp[m[k]]], "costAfterGeneralServices")

\* mutant: the product relocated by its tariffRate alone
findIndexByTariffRate(temp, mp) ==
    LET hits == {i \in 1..Len(temp) : temp[i].tariffRate = mp.tariffRate}
    IN  IF hits = {} THEN 0 ELSE CHOOSE i \in hits : \A j \in hits : i <= j

\* line 170: findIndex by name, tariffRate, unitCost and quantity; 0 stands for -1
findIndex(temp, mp) ==
    LET hits == {i \in 1..Len(temp) :
                    /\ temp[i].name = mp.name
                    /\ temp[i].tariffRate = mp.tariffRate
                    /\ temp[i].unitCost = mp.unitCost
                    /\ temp[i].quantity = mp.quantity}
    IN  IF hits = {} THEN 0 ELSE CHOOSE i \in hits : \A j \in hits : i <= j

\* mutant: the share subtracted instead of added
allocatedSpecificCostSubtracted(mp, totalBase, totalCost) ==
    RMul(R(-1), RMul(RDiv(mp.costAfterGeneralServices, totalBase), totalCost))

\* line 172
allocatedSpecificCost(mp, totalBase, totalCost) ==
    RMul(RDiv(mp.costAfterGeneralServices, totalBase), totalCost)

\* lines 169-176: matchingProducts.forEach over the positions m[1..k]
RECURSIVE AllocateToMatching(_, _, _, _, _)
AllocateToMatching(temp, m, k, totalBase, totalCost) ==
    IF k = 0 THEN temp
    ELSE LET before == AllocateToMatching(temp, m, k - 1, totalBase, totalCost)
             mp == before[m[k]]
             productIndex == findIndex(before, mp)
             share == allocatedSpecificCost(mp, totalBase, totalCost)
         IN  IF productIndex # 0
             THEN [before EXCEPT
                     ![productIndex].finalCost = RAdd(@, share),
                     ![productIndex].allocatedSpecificCostSum = RAdd(@, share)]
             ELSE before

\* mutant: the empty-match check of line 160 left out
NoMatchingProductsUnchecked(temp, specificRule) == FALSE

\* line 160
NoMatchingProducts(temp, specificRule) == matchingProducts(temp, specificRule) = <<>>

\* mutant: line 168 without the check of the base
RuleDistributesUncheckedBase(temp, svcs, specificRule) ==
    RGt(totalCostForThisRule(svcs, specificRule), Zero)

\* line 168
RuleDistributes(temp, svcs, specificRule) ==
    /\ RGt(totalCostForThisRule(svcs, specificRule), Zero)
    /\ RGt(totalBaseCostForSpecificDistribution(temp, specificRule), Zero)

\* one iteration of specificTariffRules.forEach (lines 154-178)
ProcessRule(temp, svcs, specificRule) ==
    IF NoMatchingProducts(temp, specificRule) THEN temp
    ELSE IF RuleDistributes(temp, svcs, specificRule)
    THEN LET m == matchingProducts(temp, specificRule)
         IN  AllocateToMatching(temp, m, Len(m),
                                totalBaseCostForSpecificDistribution(temp, specificRule),
                                totalCostForThisRule(svcs, specificRule))
    ELSE temp

\* the whole forEach, rules[1..k]
RECURSIVE ProcessRules(_, _, _, _)
ProcessRules(temp, svcs, rules, k) ==
    IF k = 0 THEN temp
    ELSE ProcessRule(ProcessRules(temp, svcs, rules, k - 1), svcs, rules[k])

\* the function as a whole, as handleProcess calls it (line 225)
calculateDistributedCosts(ps, svcs) ==
    LET rules == specificTariffRules(svcs)
    IN  ProcessRules(DistributeComun(InitialProcessedProducts(ps), svcs), svcs,
                     rules, Len(rules))

\* the rules console.warn is called for, in order (line 161)
warnedRules(ps, svcs) ==
    SelectSeq(specificTariffRules(svcs),
              LAMBDA r : NoMatchingProducts(InitialProcessedProducts(ps), r))

(***************************************************************************)
(* Inputs of the allocator: what the parsers can return (unitCost >= 0,    *)
(* quantity an integer >= 0, non-empty strings) and handleProcess passes   *)
(* on (a non-empty product list).                                          *)
(***************************************************************************)
Product(name, unitCost, quantity, tariffRate) ==
    [name |-> name, unitCost |-> R(unitCost), quantity |-> R(quantity),
     tariffRate |-> tariffRate]

Service(cost, distributionRule) ==
    [providerName |-> "P", serviceName |-> "S", cost |-> R(cost),
     distributionRule |-> distributionRule]

ProductSet ==
    { Product("A", 2, 1, "T1"), Product("B", 1, 3, "T1"), Product("B", 1, 3, "T2"),
      Product("C", 0, 2, "T1"), Product("D", 3, 0, "T2"), Product("A", 2, 1, "COMUN") }

ServiceSet ==
    { Service(3, "comun"), Service(2, "COMUN"), Service(4, "T1"), Service(5, "T2"),
      Service(1, "t1"), Service(0, "T1") }

SeqsUpTo(S, lo, hi) == UNION {[1..k -> S] : k \in lo..hi}

ProductLists == SeqsUpTo(ProductSet, 1, MaxProducts)
ServiceLists == SeqsUpTo(ServiceSet, 0, MaxServices)

NoLocals == [specificRule |-> "", totalCostForThisRule |-> Zero,
             totalBase |-> Zero, branch |-> "none"]

(***************************************************************************)
(* The App component at rest (useState initial values, lines 47-58).       *)
(***************************************************************************)
\* a nullable state value: Null, or Some(x) holding x
Null == <<>>
Some(x) == <<x>>
Value(o) == o[1]

AppInit ==
    /\ productsFileContent = <<>>
    /\ servicesFileContent = <<>>
    /\ processedProducts = Null
    /\ error = Null
    /\ isLoading = FALSE
    /\ totalProductCost = Null
    /\ totalServiceCost = Null
    /\ totalGlobalCost = Null
    /\ inputProducts = Null
    /\ inputServices = Null
    /\ timers = <<>>
    /\ lastRun = Null

(***************************************************************************)
(* Spec: calculateDistributedCosts, one action per step of its body.       *)
(***************************************************************************)
Init ==
    /\ products \in ProductLists
    /\ services \in ServiceLists
    /\ tempProcessedProducts = <<>>
    /\ ruleIndex = 0
    /\ locals = NoLocals
    /\ warnings = <<>>
    /\ pc = "start"
    /\ AppInit

\* lines 121-128
Initialize ==
    /\ pc = "start"
    /\ tempProcessedProducts' = InitialProcessedProducts(products)
    /\ pc' = "step1"
    /\ UNCHANGED <<products, services, ruleIndex, locals, warnings>>
    /\ UNCHANGED appVars

\* lines 131-145
Step1 ==
    /\ pc = "step1"
    /\ tempProcessedProducts' = DistributeComun(tempProcessedProducts, services)
    /\ ruleIndex' = 1
    /\ pc' = "step2"
    /\ UNCHANGED <<products, services, locals, warnings>>
    /\ UNCHANGED appVars

InForEach ==
    /\ pc = "step2"
    /\ ruleIndex <= Len(specificTariffRules(services))

CurrentRule == specificTariffRules(services)[ruleIndex]

\* lines 155-163: no product matches, warn and go on with the next rule
WarnNoMatch ==
    /\ InForEach
    /\ NoMatchingProducts(tempProcessedProducts, CurrentRule)
    /\ warnings' = Append(warnings, CurrentRule)
    /\ locals' = [specificRule |-> CurrentRule,
                  totalCostForThisRule |-> totalCostForThisRule(services, CurrentRule),
                  totalBase |-> Zero, branch |-> "warn"]
    /\ ruleIndex' = ruleIndex + 1
    /\ UNCHANGED <<products, services, tempProcessedProducts, pc>>
    /\ UNCHANGED appVars

\* lines 155-177 with the condition of line 168 true
AllocateRule ==
    /\ InForEach
    /\ ~NoMatchingProducts(tempProcessedProducts, CurrentRule)
    /\ RuleDistributes(tempProcessedProducts, services, CurrentRule)
    /\ tempProcessedProducts' = ProcessRule(tempProcessedProducts, services, CurrentRule)
    /\ locals' = [specificRule |-> CurrentRule,
                  totalCostForThisRule |-> totalCostForThisRule(services, CurrentRule),
                  totalBase |-> totalBaseCostForSpecificDistribution(tempProcessedProducts, CurrentRule),
                  branch |-> "allocate"]
    /\ ruleIndex' = ruleIndex + 1
    /\ UNCHANGED <<products, services, warnings, pc>>
    /\ UNCHANGED appVars

\* lines 155-177 with the condition of line 168 false
DropRule ==
    /\ InForEach
    /\ ~NoMatchingProducts(tempProcessedProducts, CurrentRule)
    /\ ~RuleDistributes(tempProcessedProducts, services, CurrentRule)
    /\ tempProcessedProducts' = ProcessRule(tempProcessedProducts, services, CurrentRule)
    /\ locals' = [specificRule |-> CurrentRule,
                  totalCostForThisRule |-> totalCostForThisRule(services, CurrentRule),
                  totalBase |-> totalBaseCostForSpecificDistribution(tempProcessedProducts, CurrentRule),
                  branch |-> "drop"]
    /\ ruleIndex' = ruleIndex + 1
    /\ UNCHANGED <<products, services, warnings, pc>>
    /\ UNCHANGED appVars

\* line 180
Return ==
    /\ pc = "step2"
    /\ ruleIndex > Len(specificTariffRules(services))
    /\ pc' = "done"
    /\ UNCHANGED <<products, services, tempProcessedProducts, ruleIndex, locals, warnings>>
    /\ UNCHANGED appVars

Next ==
    \/ Initialize
    \/ Step1
    \/ WarnNoMatch
    \/ AllocateRule
    \/ DropRule
    \/ Return

Spec == Init /\ [][Next]_vars

(***************************************************************************)
(* File contents and the parsers, App.tsx 76-117.  A file content is the   *)
(* sequence of its lines (content.split('\n')), a line the sequence of its *)
(* fields (line.split(',')); the empty string is the empty sequence.       *)
(***************************************************************************)
EmptyString == <<>>

\* String.prototype.trim on the fields the model uses
trim(t) ==
    CASE t = " " -> ""
      [] t = " B " -> "B"
      [] t = " 3" -> "3"
      [] t = "T1 " -> "T1"
      [] OTHER -> t

\* parseFloat on the fields the model uses
parseFloat(t) ==
    CASE t = "0" -> R(0)
      [] t = "1" -> R(1)
      [] t = "2" -> R(2)
      [] t = "3" -> R(3)
      [] t = "4" -> R(4)
      [] t = "-1" -> R(-1)
      [] t = "2.5" -> Norm(5, 2)
      [] OTHER -> NotANumber

\* parseInt(t, 10) on the fields the model uses
parseInt(t) ==
    CASE t = "0" -> R(0)
      [] t = "1" -> R(1)
      [] t = "2" -> R(2)
      [] t = "3" -> R(3)
      [] t = "4" -> R(4)
      [] t = "-1" -> R(-1)
      [] t = "2.5" -> R(2)
      [] OTHER -> NotANumber

\* line.trim() !== '' : a line is blank when it is one field of white space
IsBlankLine(line) == Len(line) = 1 /\ trim(line[1]) = ""

\* content.split('\n').filter(line => line.trim() !== '')
nonBlankLines(content) == SelectSeq(content, LAMBDA line : ~IsBlankLine(line))

Thrown(file, index, what) ==
    [ok |-> FALSE, error |-> [file |-> file, line |-> index + 1, what |-> what]]

Parsed(value) == [ok |-> TRUE, value |-> value]

\* the callback of lines.map in parseProductsFile (lines 78-93); index from 0
parseProductLine(line, index) ==
    IF Len(line) # 4 THEN Thrown("productos", index, "campos")
    ELSE LET name == trim(line[1])
             unitCost == parseFloat(trim(line[2]))
             quantity == parseInt(trim(line[3]))
             tariffRate == trim(line[4])
         IN  IF IsNaN(unitCost) \/ RLt(unitCost, Zero)
                THEN Thrown("productos", index, "costo unitario")
             ELSE IF IsNaN(quantity) \/ RLt(quantity, Zero)
                THEN Thrown("productos", index, "cantidad")
             ELSE IF name = "" THEN Thrown("productos", index, "nombre")
             ELSE IF tariffRate = "" THEN Thrown("productos", index, "tasa arancelaria")
             ELSE Parsed([name |-> name, unitCost |-> unitCost, quantity |-> quantity,
                          tariffRate |-> tariffRate])

\* the callback of lines.map in parseServicesFile (lines 98-116); index from 0
parseServiceLine(line, index) ==
    IF Len(line) # 4 THEN Thrown("servicios", index, "campos")
    ELSE LET providerName == trim(line[1])
             serviceName == trim(line[2])
             cost == parseFloat(trim(line[3]))
             distributionRule == trim(line[4])
         IN  IF IsNaN(cost) \/ RLt(cost, Zero) THEN Thrown("servicios", index, "costo")
             ELSE IF providerName = "" THEN Thrown("servicios", index, "proveedor")
             ELSE IF serviceName = "" THEN Thrown("servicios", index, "servicio")
             ELSE IF distributionRule = ""
                THEN Thrown("servicios", index, "tasa arancelaria asignada")
             ELSE Parsed([providerName |-> providerName, serviceName |-> serviceName,
                          cost |-> cost, distributionRule |-> distributionRule])

\* lines.map(callback): the first throw ends the map, else the mapped array
RECURSIVE mapProductLines(_, _)
mapProductLines(lines, k) ==
    IF k = 0 THEN Parsed(<<>>)
    ELSE LET front == mapProductLines(lines, k - 1)
             this == parseProductLine(lines[k], k - 1)
         IN  IF ~front.ok THEN front
             ELSE IF ~this.ok THEN this
             ELSE Parsed(Append(front.value, this.value))

RECURSIVE mapServiceLines(_, _)
mapServiceLines(lines, k) ==
    IF k = 0 THEN Parsed(<<>>)
    ELSE LET front == mapServiceLines(lines, k - 1)
             this == parseServiceLine(lines[k], k - 1)
         IN  IF ~front.ok THEN front
             ELSE IF ~this.ok THEN this
             ELSE Parsed(Append(front.value, this.value))

\* lines 76-94
parseProductsFile(content) ==
    LET lines == nonBlankLines(content)
    IN  mapProductLines(lines, Len(lines))

\* lines 96-117
parseServicesFile(content) ==
    LET lines == nonBlankLines(content)
    IN  mapServiceLines(lines, Len(lines))

(***************************************************************************)
(* handleProcess, App.tsx 183-235, on the App state taken as a record.     *)
(***************************************************************************)
AppState ==
    [processedProducts |-> processedProducts, error |-> error, isLoading |-> isLoading,
     totalProductCost |-> totalProductCost, totalServiceCost |-> totalServiceCost,
     totalGlobalCost |-> totalGlobalCost, inputProducts |-> inputProducts,
     inputServices |-> inputServices]

SetAppState(st) ==
    /\ processedProducts' = st.processedProducts
    /\ error' = st.error
    /\ isLoading' = st.isLoading
    /\ totalProductCost' = st.totalProductCost
    /\ totalServiceCost' = st.totalServiceCost
    /\ totalGlobalCost' = st.totalGlobalCost
    /\ inputProducts' = st.inputProducts
    /\ inputServices' = st.inputServices

MissingFilesError == [file |-> "ambos", line |-> 0, what |-> "cargue ambos archivos"]
EmptyProductsError == [file |-> "productos", line |-> 0, what |-> "sin datos"]

\* mutant: the reset leaves the parsed inputs in place
resetTotalsOnly(st) ==
    [st EXCEPT !.totalProductCost = Null, !.totalServiceCost = Null,
               !.totalGlobalCost = Null]

\* lines 183-189
resetTotalsAndInputs(st) ==
    [st EXCEPT !.totalProductCost = Null, !.totalServiceCost = Null,
               !.totalGlobalCost = Null, !.inputProducts = Null, !.inputServices = Null]

\* lines 192-197: the early return
missingFiles(pContent, sContent) == pContent = EmptyString \/ sContent = EmptyString

handleProcessMissing(st) ==
    resetTotalsAndInputs([st EXCEPT !.error = Some(MissingFilesError),
                                    !.processedProducts = Null])

\* mutant: lines 198-201 without setError(null)
handleProcessStartKeepsError(st) ==
    resetTotalsAndInputs([st EXCEPT !.isLoading = TRUE, !.processedProducts = Null])

\* lines 198-201: up to the await
handleProcessStart(st) ==
    resetTotalsAndInputs([st EXCEPT !.isLoading = TRUE, !.error = Null,
                                    !.processedProducts = Null])

\* lines 217-219
currentTotalProductCost(parsedProducts) ==
    SumField([i \in 1..Len(parsedProducts) |->
                 [v |-> RMul(parsedProducts[i].unitCost, parsedProducts[i].quantity)]], "v")
currentTotalServiceCost(parsedServices) == SumField(parsedServices, "cost")

\* lines 205-227: the try block; thrown is Null when it runs to its end, calls
\* counts the calls of calculateDistributedCosts
tryBlock(st, run) ==
    LET pp == parseProductsFile(run.productsFileContent)
        ps == parseServicesFile(run.servicesFileContent)
    IN  IF ~pp.ok THEN [st |-> st, thrown |-> Some(pp.error), calls |-> 0]
        ELSE IF ~ps.ok THEN [st |-> st, thrown |-> Some(ps.error), calls |-> 0]
        ELSE LET st1 == [st EXCEPT !.inputProducts = Some(pp.value),
                                   !.inputServices = Some(ps.value)]
             IN  IF Len(pp.value) = 0
                 THEN [st |-> st1, thrown |-> Some(EmptyProductsError), calls |-> 0]
                 ELSE [st |-> [st1 EXCEPT
                                 !.totalProductCost = Some(currentTotalProductCost(pp.value)),
                                 !.totalServiceCost = Some(currentTotalServiceCost(ps.value)),
                                 !.totalGlobalCost =
                                     Some(RAdd(currentTotalProductCost(pp.value),
                                               currentTotalServiceCost(ps.value))),
                                 !.processedProducts =
                                     Some(calculateDistributedCosts(pp.value, ps.value))],
                       thrown |-> Null, calls |-> 1]

\* lines 228-231
catchBlock(st, e) ==
    resetTotalsAndInputs([st EXCEPT !.error = Some(e), !.processedProducts = Null])

\* lines 232-234
finallyBlock(st) == [st EXCEPT !.isLoading = FALSE]

\* lines 205-234: what the invocation does once its timer has fired
handleProcessResume(st, run) ==
    LET t == tryBlock(st, run)
    IN  finallyBlock(IF t.thrown = Null THEN t.st ELSE catchBlock(t.st, Value(t.thrown)))

(***************************************************************************)
(* The files a user can pick.                                              *)
(***************************************************************************)
BlankLine == <<"">>
SpaceLine == <<" ">>

ProductFiles ==
    { EmptyString,
      <<SpaceLine>>,
      << <<"A", "2", "1", "T1">> >>,
      << <<"A", "2", "1", "T1">>, BlankLine, <<" B ", "1", " 3", "T1 ">> >>,
      << <<"A", "2.5", "2.5", "T1">>, <<"B", "0", "2", "COMUN">> >>,
      << <<"A", "2", "1", "T1">>, BlankLine, <<"B", "x", "1", "T1">> >>,
      << BlankLine, <<"A", "2", "1">> >>,
      << <<"A", "2", "-1", "T1">> >>,
      << <<"A", "2", "1", "T1">>, <<" ", "2", "1", "T1">> >>,
      << <<"A", "2", "1", " ">> >> }

ServiceFiles ==
    { EmptyString,
      <<SpaceLine>>,
      << <<"P", "S", "3", "comun">> >>,
      << <<"P", "S", "3", "COMUN">>, BlankLine, <<"P", "S", "4", "T1">> >>,
      << <<"P", "S", "4", "T9">> >>,
      << BlankLine, <<"P", "S", "-1", "T1">> >>,
      << <<"P", "S", "3", "comun">>, <<"P", "S", "3">> >>,
      << <<" ", "S", "3", "comun">> >>,
      << <<"P", "", "3", "comun">> >>,
      << <<"P", "S", "3", "comun">>, BlankLine, BlankLine, <<"P", "S", "3", "">> >> }

(***************************************************************************)
(* SpecApp: the App component.  calculateDistributedCosts runs inside the  *)
(* resumed handler; its own steps and warnings are those of Spec.          *)
(***************************************************************************)
InitApp ==
    /\ products = <<>>
    /\ services = <<>>
    /\ tempProcessedProducts = <<>>
    /\ ruleIndex = 0
    /\ locals = NoLocals
    /\ warnings = <<>>
    /\ pc = "idle"
    /\ AppInit

\* FileUpload.handleFileChange -> onFileContent = setProductsFileContent
LoadProductsFile ==
    /\ \E content \in ProductFiles : productsFileContent' = content
    /\ UNCHANGED <<servicesFileContent, processedProducts, error, isLoading,
                   totalProductCost, totalServiceCost, totalGlobalCost, inputProducts,
                   inputServices, timers, lastRun>>
    /\ UNCHANGED allocVars

\* FileUpload.handleFileChange -> onFileContent = setServicesFileContent
LoadServicesFile ==
    /\ \E content \in ServiceFiles : servicesFileContent' = content
    /\ UNCHANGED <<productsFileContent, processedProducts, error, isLoading,
                   totalProductCost, totalServiceCost, totalGlobalCost, inputProducts,
                   inputServices, timers, lastRun>>
    /\ UNCHANGED allocVars

\* the button that calls handleProcess (line 443: disabled=...)
ProcessButtonEnabled ==
    ~(isLoading \/ productsFileContent = EmptyString \/ servicesFileContent = EmptyString)

\* onClick={handleProcess}, lines 191-203: up to the await
HandleProcess ==
    /\ ProcessButtonEnabled
    /\ IF missingFiles(productsFileContent, servicesFileContent)
       THEN /\ SetAppState(handleProcessMissing(AppState))
            /\ lastRun' = Some([productsFileContent |-> productsFileContent,
                                servicesFileContent |-> servicesFileContent,
                                thrown |-> Some(MissingFilesError), calls |-> 0])
            /\ UNCHANGED timers
       ELSE /\ SetAppState(handleProcessStart(AppState))
            /\ timers' = Append(timers, [productsFileContent |-> productsFileContent,
                                         servicesFileContent |-> servicesFileContent])
            /\ lastRun' = Null
    /\ UNCHANGED <<productsFileContent, servicesFileContent>>
    /\ UNCHANGED allocVars

Resume(run) ==
    /\ SetAppState(handleProcessResume(AppState, run))
    /\ timers' = Tail(timers)
    /\ lastRun' = Some([productsFileContent |-> run.productsFileContent,
                        servicesFileContent |-> run.servicesFileContent,
                        thrown |-> tryBlock(AppState, run).thrown,
                        calls |-> tryBlock(AppState, run).calls])
    /\ UNCHANGED <<productsFileContent, servicesFileContent>>
    /\ UNCHANGED allocVars

\* the timer of line 203 fires and the try block runs to its end
ResumeAndSucceed ==
    /\ timers # <<>>
    /\ tryBlock(AppState, Head(timers)).thrown = Null
    /\ Resume(Head(timers))

\* the timer of line 203 fires and the try block throws
ResumeAndFail ==
    /\ timers # <<>>
    /\ tryBlock(AppState, Head(timers)).thrown # Null
    /\ Resume(Head(timers))

NextApp ==
    \/ LoadProductsFile
    \/ LoadServicesFile
    \/ HandleProcess
    \/ ResumeAndSucceed
    \/ ResumeAndFail

SpecApp == InitApp /\ [][NextApp]_vars

\* line 203: the timer of the oldest waiting handler fires.  The steps of
\* NextApp that take the head off timers are those of ResumeAndSucceed and
\* ResumeAndFail, and one of the two is enabled whenever a handler waits.
TimerFires ==
    /\ timers # <<>>
    /\ timers' = Tail(timers)

\* SpecApp with every timer firing: a handler that waits is resumed
SpecAppFair ==
    /\ SpecApp
    /\ WF_timers(TimerFires)

(***************************************************************************)
(* The derived display values: the rows of ResultsTable (ResultsTable.tsx  *)
(* 37-63) and of the PDF table (App.tsx 285-307).  A cell is what is       *)
(* printed: a number rounded to four decimals in some style, or a word.    *)
(***************************************************************************)
\* Number.prototype.toFixed(4) and the four fraction digits of toLocaleString:
\* the nearest multiple of 1/10000, halves away from zero
toFixed4(x) ==
    IF IsNaN(x) THEN NotANumber
    ELSE LET sgn == IF x.n < 0 THEN -1 ELSE 1
         IN  Norm(sgn * ((2 * Abs(x.n) * 10000 + x.d) \div (2 * x.d)), 10000)

Cell(kind, value, style) == [kind |-> kind, value |-> value, style |-> style]

NotApplicable == Cell("N/A", Zero, "")
Infinito == Cell("Infinito", Zero, "")

\* ResultsTable.tsx 14-16
formatCurrencyTable(value) == Cell("number", toFixed4(value), "es-ES USD")

\* App.tsx 68-73
formatCurrencyForPDF(value) ==
    IF IsNaN(value) THEN NotApplicable ELSE Cell("number", toFixed4(value), "USD")

\* (finalUnitCost / unitCost).toFixed(4) + "x"
factorText(finalUnitCost, unitCost) ==
    Cell("number", toFixed4(RDiv(finalUnitCost, unitCost)), "x")

\* ResultsTable.tsx 38
tableFinalUnitCost(product) ==
    IF RGt(product.quantity, Zero) THEN RDiv(product.finalCost, product.quantity) ELSE Zero

\* ResultsTable.tsx 39-45
costIncreaseFactor(product) ==
    IF /\ RGt(product.unitCost, Zero)
       /\ RGt(product.quantity, Zero)
       /\ RGt(tableFinalUnitCost(product), Zero)
    THEN factorText(tableFinalUnitCost(product), product.unitCost)
    ELSE IF /\ product.unitCost = Zero
            /\ RGt(tableFinalUnitCost(product), Zero)
            /\ RGt(product.quantity, Zero)
    THEN Infinito
    ELSE NotApplicable

\* ResultsTable.tsx 60-62: the cell "Costo Unit. Final"
tableFinalUnitCostCell(product) ==
    IF RGt(product.quantity, Zero)
    THEN formatCurrencyTable(tableFinalUnitCost(product))
    ELSE NotApplicable

\* App.tsx 286
pdfFinalUnitCost(p) ==
    IF RGt(p.quantity, Zero) THEN RDiv(p.finalCost, p.quantity) ELSE Zero

\* App.tsx 287-292
pdfFactor(p) ==
    IF /\ RGt(p.unitCost, Zero)
       /\ RGt(p.quantity, Zero)
       /\ RGt(pdfFinalUnitCost(p), Zero)
    THEN factorText(pdfFinalUnitCost(p), p.unitCost)
    ELSE IF /\ p.unitCost = Zero
            /\ RGt(pdfFinalUnitCost(p), Zero)
            /\ RGt(p.quantity, Zero)
    THEN Infinito
    ELSE NotApplicable

\* App.tsx 304: the cell "C.U.Final"
pdfFinalUnitCostCell(p) == formatCurrencyForPDF(pdfFinalUnitCost(p))

(***************************************************************************)
(* Quantities of the specification, computed from the arguments and the    *)
(* returned records without the operators above.                           *)
(***************************************************************************)
RECURSIVE SumOver(_, _)
SumOver(f, S) ==
    IF S = {} THEN Zero
    ELSE LET i == CHOOSE x \in S : TRUE
         IN  RAdd(f[i], SumOver(f, S \ {i}))

Share(part, whole, pool) == RMul(RDiv(part, whole), pool)

Done == pc = "done"
Out == tempProcessedProducts
Positions == DOMAIN tempProcessedProducts

GeneralMarkers == {"comun", "COMUN", "Comun"}

GeneralServices == {j \in DOMAIN services : services[j].distributionRule \in GeneralMarkers}
TotalGeneralCost == SumOver([j \in DOMAIN services |-> services[j].cost], GeneralServices)
TotalInitialValue ==
    SumOver([i \in DOMAIN products |-> RMul(products[i].unitCost, products[i].quantity)],
            DOMAIN products)

SpecificRules ==
    {services[j].distributionRule : j \in (DOMAIN services) \ GeneralServices}
Matching(r) == {i \in DOMAIN products : products[i].tariffRate = r}
RuleCost(r) ==
    SumOver([j \in DOMAIN services |-> services[j].cost],
            {j \in DOMAIN services : services[j].distributionRule = r})
RuleBase(r) ==
    SumOver([i \in Positions |-> Out[i].costAfterGeneralServices], Matching(r) \cap Positions)
RulePays(r) == RGt(RuleCost(r), Zero) /\ RGt(RuleBase(r), Zero)

\* C1: after calculateDistributedCosts returns, every product matching a
\* specific rule with positive cost and positive base holds exactly its own
\* share (costAfterGeneralServices / totalBase) * totalCostForRule, also when
\* two products of the list are equal in all four input fields.
C1_PerProductShare ==
    Done =>
      \A r \in SpecificRules :
        RulePays(r) =>
          \A i \in Matching(r) :
            Out[i].allocatedSpecificCostSum =
              Share(Out[i].costAfterGeneralServices, RuleBase(r), RuleCost(r))

\* C2: when the general pool and the total initial value are positive, every
\* product's allocatedGeneralCostSum is (initialCost / totalInitialValue) *
\* totalGeneralCost whatever its tariffRate, and the shares add up to the pool.
C2_Phase1Conservation ==
    (Done /\ RGt(TotalGeneralCost, Zero) /\ RGt(TotalInitialValue, Zero)) =>
      /\ \A i \in Positions :
            Out[i].allocatedGeneralCostSum =
              Share(RMul(products[i].unitCost, products[i].quantity),
                    TotalInitialValue, TotalGeneralCost)
      /\ SumOver([i \in Positions |-> Out[i].allocatedGeneralCostSum], Positions)
           = TotalGeneralCost

C2_Witness ==
    /\ Done
    /\ RGt(TotalGeneralCost, Zero)
    /\ \E i, k \in Positions :
          /\ Out[i].tariffRate # Out[k].tariffRate
          /\ RGt(Out[i].allocatedGeneralCostSum, Out[k].allocatedGeneralCostSum)
          /\ RGt(Out[k].allocatedGeneralCostSum, Zero)

\* C3: for every specific rule with positive cost and positive matching base,
\* the allocatedSpecificCostSum of its matching products add up to the rule's
\* cost, and the base the iteration computed is the sum of the matching
\* products' costAfterGeneralServices.
C3_Phase2Conservation ==
    /\ Done =>
         \A r \in SpecificRules :
           RulePays(r) =>
             SumOver([i \in Positions |-> Out[i].allocatedSpecificCostSum],
                     Matching(r) \cap Positions) = RuleCost(r)
    /\ locals.branch \in {"allocate", "drop"} =>
         locals.totalBase = RuleBase(locals.specificRule)

C3_Witness ==
    /\ Done
    /\ locals.branch = "allocate"
    /\ Cardinality(Matching(locals.specificRule)) = 2
    /\ RGt(TotalGeneralCost, Zero)
    /\ RGt(locals.totalBase,
           SumOver([i \in Positions |-> Out[i].initialCost], Matching(locals.specificRule)))
    /\ \A i \in Matching(locals.specificRule) : RGt(Out[i].allocatedSpecificCostSum, Zero)

\* C4: every ProcessedProduct has finalCost = initialCost +
\* allocatedGeneralCostSum + allocatedSpecificCostSum, costAfterGeneralServices
\* = initialCost + allocatedGeneralCostSum and initialCost = unitCost *
\* quantity, from its creation to the return.
C4_StructuralInvariant ==
    pc # "start" =>
      /\ Len(Out) = Len(products)
      /\ \A i \in Positions :
           /\ Out[i].finalCost =
                RAdd(RAdd(Out[i].initialCost, Out[i].allocatedGeneralCostSum),
                     Out[i].allocatedSpecificCostSum)
           /\ Out[i].costAfterGeneralServices =
                RAdd(Out[i].initialCost, Out[i].allocatedGeneralCostSum)
           /\ Out[i].initialCost = RMul(products[i].unitCost, products[i].quantity)

C4_Witness ==
    /\ Done
    /\ \E i \in Positions :
          /\ RGt(Out[i].allocatedGeneralCostSum, Zero)
          /\ RGt(Out[i].allocatedSpecificCostSum, Zero)
          /\ RGt(Out[i].initialCost, Zero)

Orphans ==
    {j \in (DOMAIN services) \ GeneralServices : Matching(services[j].distributionRule) = {}}

RemoveAt(seq, j) == SubSeq(seq, 1, j - 1) \o SubSeq(seq, j + 1, Len(seq))

\* C5: a service whose specific rule matches no product's tariffRate leaves
\* the result what it is without that service, a warning names its rule, and
\* the run reaches its return.
C5_OrphanRuleSafety ==
    /\ Done =>
         \A j \in Orphans :
           /\ Out = calculateDistributedCosts(products, RemoveAt(services, j))
           /\ \E w \in DOMAIN warnings : warnings[w] = services[j].distributionRule
    /\ \A w \in DOMAIN warnings : Matching(warnings[w]) = {}

C5_Witness ==
    /\ Done
    /\ \E j \in Orphans : RGt(services[j].cost, Zero)
    /\ \E i \in Positions : RGt(Out[i].allocatedSpecificCostSum, Zero)

\* C6: with non-negative unit costs, quantities and service costs, every
\* returned product has finalCost >= costAfterGeneralServices >= initialCost
\* >= 0 and both allocated sums >= 0.
C6_Monotonicity ==
    Done =>
      \A i \in Positions :
        /\ RGeq(Out[i].finalCost, Out[i].costAfterGeneralServices)
        /\ RGeq(Out[i].costAfterGeneralServices, Out[i].initialCost)
        /\ RGeq(Out[i].initialCost, Zero)
        /\ RGeq(Out[i].allocatedGeneralCostSum, Zero)
        /\ RGeq(Out[i].allocatedSpecificCostSum, Zero)

C6_Witness ==
    /\ Done
    /\ \E i \in Positions :
          /\ RGt(Out[i].finalCost, Out[i].costAfterGeneralServices)
          /\ RGt(Out[i].costAfterGeneralServices, Out[i].initialCost)
    /\ \E i \in Positions : Out[i].finalCost = Zero

\* C7: when the general pool is zero (no service at all included) or the
\* total initial value is zero, no product receives general cost:
\* allocatedGeneralCostSum = 0 and costAfterGeneralServices = initialCost.
C7_ZeroTotalDrop ==
    (Done /\ (TotalGeneralCost = Zero \/ TotalInitialValue = Zero)) =>
      \A i \in Positions :
        /\ Out[i].allocatedGeneralCostSum = Zero
        /\ Out[i].costAfterGeneralServices = Out[i].initialCost

C7_Witness ==
    /\ Done
    /\ RGt(TotalGeneralCost, Zero)
    /\ TotalInitialValue = Zero
    /\ Len(products) = 2

\* C10: a service joins the general pool exactly when its rule lower-cased is
\* "comun" and is then never iterated as a specific rule; a product receives
\* specific cost only from services whose rule equals its tariffRate exactly.
C10_MixedCaseSensitivity ==
    /\ locals.branch # "none" => locals.specificRule \notin GeneralMarkers
    /\ Done =>
         /\ RGt(TotalInitialValue, Zero) =>
              SumOver([i \in Positions |-> Out[i].allocatedGeneralCostSum], Positions)
                = TotalGeneralCost
         /\ \A i \in Positions :
              Out[i].tariffRate \notin SpecificRules =>
                Out[i].allocatedSpecificCostSum = Zero

C10_Witness ==
    /\ Done
    /\ \E i \in Positions, j \in DOMAIN services :
          /\ Out[i].tariffRate = "COMUN"
          /\ services[j].distributionRule = "COMUN"
          /\ RGt(Out[i].allocatedGeneralCostSum, Zero)
          /\ Out[i].allocatedSpecificCostSum = Zero
    /\ \E i \in Positions, j \in DOMAIN services :
          /\ Out[i].tariffRate = "T1"
          /\ services[j].distributionRule = "t1"
          /\ RGt(services[j].cost, Zero)
          /\ Out[i].finalCost = Out[i].costAfterGeneralServices

\* the stepwise run and the function applied as a whole agree
StepwiseAgrees ==
    Done => /\ Out = calculateDistributedCosts(products, services)
            /\ warnings = warnedRules(products, services)

(***************************************************************************)
(* handleProcess and the parsers (SpecApp).                                *)
(***************************************************************************)
Failed == lastRun # Null /\ Value(lastRun).thrown # Null
Thrown_ == Value(Value(lastRun).thrown)

ParseErrors ==
    {"campos", "costo unitario", "cantidad", "nombre", "tasa arancelaria", "costo",
     "proveedor", "servicio", "tasa arancelaria asignada"}

AllBlank(content) == \A i \in DOMAIN content : IsBlankLine(content[i])

NoResults ==
    /\ processedProducts = Null
    /\ totalProductCost = Null
    /\ totalServiceCost = Null
    /\ totalGlobalCost = Null
    /\ inputProducts = Null
    /\ inputServices = Null

\* C8: once handleProcess has ended in an error, error holds it, isLoading is
\* false and no result, total or parsed input is kept; a product file without
\* a data line never reaches calculateDistributedCosts and, when the services
\* parse, ends in an error that is none of the parse errors.
C8_NoPartialResults ==
    /\ error # Null => NoResults
    /\ Failed =>
         /\ error = Value(lastRun).thrown
         /\ NoResults
         /\ isLoading = FALSE
    /\ (lastRun # Null /\ AllBlank(Value(lastRun).productsFileContent)) =>
         /\ Failed
         /\ Value(lastRun).calls = 0
         /\ parseServicesFile(Value(lastRun).servicesFileContent).ok =>
              /\ Thrown_.what \notin ParseErrors
              /\ Thrown_ = EmptyProductsError

C8_Witness ==
    /\ Failed
    /\ Thrown_ = EmptyProductsError
    /\ Value(lastRun).productsFileContent # EmptyString
    /\ Len(parseServicesFile(Value(lastRun).servicesFileContent).value) > 0
    /\ error = Some(EmptyProductsError)
    /\ inputServices = Null

\* the number, in the file, of the first line its parser rejects
FirstRejectedLine(content, file) ==
    LET rejected == {i \in DOMAIN content :
                        /\ ~IsBlankLine(content[i])
                        /\ IF file = "productos"
                           THEN ~parseProductLine(content[i], 0).ok
                           ELSE ~parseServiceLine(content[i], 0).ok}
    IN  CHOOSE i \in rejected : \A k \in rejected : i <= k

RunContent(file) ==
    IF file = "productos" THEN Value(lastRun).productsFileContent
    ELSE Value(lastRun).servicesFileContent

\* C9: the line number of a parse error is the 1-based number, in the input
\* text, of the malformed line, also when blank lines come before it.
C9_ErrorLineNumber ==
    (Failed /\ Thrown_.what \in ParseErrors) =>
       Thrown_.line = FirstRejectedLine(RunContent(Thrown_.file), Thrown_.file)

(***************************************************************************)
(* The allocator's frame, its divisions, the overall account and the       *)
(* display values (Spec).                                                  *)
(***************************************************************************)
\* C11: calculateDistributedCosts leaves its arguments as they are; its
\* records are one per product, in the order of the products, with name,
\* unitCost, quantity and tariffRate copied; and what it returns is the
\* function of its two arguments alone.
C11_NoMutationSameOrder ==
    [][/\ products' = products
       /\ services' = services
       /\ pc' # "start" =>
            /\ Len(tempProcessedProducts') = Len(products)
            /\ \A i \in DOMAIN products :
                 /\ tempProcessedProducts'[i].name = products[i].name
                 /\ tempProcessedProducts'[i].unitCost = products[i].unitCost
                 /\ tempProcessedProducts'[i].quantity = products[i].quantity
                 /\ tempProcessedProducts'[i].tariffRate = products[i].tariffRate
       /\ pc' = "done" =>
            tempProcessedProducts' = calculateDistributedCosts(products, services)]_vars

C11_Witness ==
    /\ Done
    /\ Len(Out) = 2
    /\ Out[1].name # Out[2].name
    /\ \A i \in Positions : RGt(Out[i].finalCost, Out[i].initialCost)

\* C12: for every returned product the table and the PDF print the same final
\* unit cost and the same factor: finalCost / quantity when quantity > 0 and
\* "N/A", no number, when quantity = 0; the factor finalUnitCost / unitCost
\* when unitCost, quantity and finalUnitCost are positive, "N/A" when
\* quantity = 0.
C12_SameDerivedValues ==
    Done =>
      \A i \in Positions :
        /\ tableFinalUnitCostCell(Out[i]).kind = pdfFinalUnitCostCell(Out[i]).kind
        /\ tableFinalUnitCostCell(Out[i]).value = pdfFinalUnitCostCell(Out[i]).value
        /\ costIncreaseFactor(Out[i]) = pdfFactor(Out[i])
        /\ RGt(Out[i].quantity, Zero) =>
             /\ tableFinalUnitCostCell(Out[i]).kind = "number"
             /\ tableFinalUnitCostCell(Out[i]).value =
                  toFixed4(RDiv(Out[i].finalCost, Out[i].quantity))
        /\ Out[i].quantity = Zero =>
             /\ tableFinalUnitCostCell(Out[i]).kind = "N/A"
             /\ pdfFinalUnitCostCell(Out[i]).kind = "N/A"
             /\ costIncreaseFactor(Out[i]).kind = "N/A"
        /\ (RGt(Out[i].quantity, Zero) /\ RGt(Out[i].unitCost, Zero)
              /\ RGt(Out[i].finalCost, Zero)) =>
             costIncreaseFactor(Out[i]).value =
               toFixed4(RDiv(RDiv(Out[i].finalCost, Out[i].quantity), Out[i].unitCost))

NumbersOf(p) ==
    {p.initialCost, p.allocatedGeneralCostSum, p.costAfterGeneralServices,
     p.allocatedSpecificCostSum, p.finalCost}

\* C13: no division by a divisor that is not positive: no number of any record
\* is ever the result of one, the base of an allocating iteration is positive,
\* general cost is allocated only with a positive total initial value, and the
\* final unit costs and factors of the returned records are numbers.
C13_NoUnguardedDivision ==
    /\ \A i \in Positions : \A x \in NumbersOf(Out[i]) : ~IsNaN(x)
    /\ locals.branch = "allocate" => RGt(locals.totalBase, Zero)
    /\ (\E i \in Positions : Out[i].allocatedGeneralCostSum # Zero) =>
         RGt(TotalInitialValue, Zero)
    /\ Done =>
         \A i \in Positions :
           /\ ~IsNaN(tableFinalUnitCost(Out[i]))
           /\ ~IsNaN(pdfFinalUnitCost(Out[i]))
           /\ ~IsNaN(costIncreaseFactor(Out[i]).value)
           /\ ~IsNaN(pdfFactor(Out[i]).value)
           /\ ~IsNaN(tableFinalUnitCostCell(Out[i]).value)
           /\ ~IsNaN(pdfFinalUnitCostCell(Out[i]).value)

C13_Witness ==
    /\ Done
    /\ TotalInitialValue = Zero
    /\ RGt(TotalGeneralCost, Zero)
    /\ locals.branch = "drop"
    /\ RGt(locals.totalCostForThisRule, Zero)
    /\ \E i \in Positions : Out[i].quantity = Zero
    /\ \E i \in Positions : Out[i].unitCost = Zero

RSub(x, y) == RAdd(x, RMul(R(-1), y))

SumFinalCost == SumOver([i \in Positions |-> Out[i].finalCost], Positions)

DroppedRules == {r \in SpecificRules : Matching(r) = {} \/ RuleBase(r) = Zero}

\* the cost of the pools that are not distributed
DroppedCost ==
    RAdd(IF TotalInitialValue = Zero THEN TotalGeneralCost ELSE Zero,
         SumOver([r \in DroppedRules |-> RuleCost(r)], DroppedRules))

\* C14: the final costs add up to the total product cost plus the total
\* service cost less the cost of the dropped pools (the general pool when the
\* total initial value is zero, every specific rule without a matching product
\* or with a zero base); so they never exceed the total global cost and equal
\* it exactly when the dropped pools cost nothing.
C14_OverallAccounting ==
    Done =>
      LET global == RAdd(currentTotalProductCost(products),
                         currentTotalServiceCost(services))
      IN  /\ SumFinalCost = RSub(global, DroppedCost)
          /\ RGeq(global, SumFinalCost)
          /\ (SumFinalCost = global) <=> (DroppedCost = Zero)

C14_Witness ==
    /\ Done
    /\ RGt(DroppedCost, Zero)
    /\ RGt(SumFinalCost, TotalInitialValue)

\* C16: a product whose initialCost is zero is allocated nothing and ends with
\* finalCost zero; so no returned record has unitCost zero, a positive
\* quantity and a positive final unit cost, and neither the table nor the PDF
\* prints "Infinito".
C16_ZeroCostGetsNothing ==
    Done =>
      \A i \in Positions :
        /\ Out[i].initialCost = Zero =>
             /\ Out[i].allocatedGeneralCostSum = Zero
             /\ Out[i].allocatedSpecificCostSum = Zero
             /\ Out[i].finalCost = Zero
        /\ ~(/\ Out[i].unitCost = Zero
             /\ RGt(Out[i].quantity, Zero)
             /\ RGt(tableFinalUnitCost(Out[i]), Zero))
        /\ costIncreaseFactor(Out[i]) # Infinito
        /\ pdfFactor(Out[i]) # Infinito

C16_Witness ==
    /\ Done
    /\ \E i, k \in Positions :
          /\ Out[i].unitCost = Zero
          /\ RGt(Out[i].quantity, Zero)
          /\ Out[i].tariffRate = Out[k].tariffRate
          /\ RGt(Out[k].allocatedGeneralCostSum, Zero)
          /\ RGt(Out[k].allocatedSpecificCostSum, Zero)

(***************************************************************************)
(* Invocations of handleProcess and uploads (SpecAppFair).                 *)
(***************************************************************************)
\* every stored result is the one of the pair of contents pf, sf
DerivedFrom(pf, sf) ==
    LET pp == parseProductsFile(pf)
        ps == parseServicesFile(sf)
    IN  /\ pp.ok
        /\ ps.ok
        /\ inputProducts = Some(pp.value)
        /\ inputServices = Some(ps.value)
        /\ totalProductCost = Some(currentTotalProductCost(pp.value))
        /\ totalServiceCost = Some(currentTotalServiceCost(ps.value))
        /\ totalGlobalCost = Some(RAdd(currentTotalProductCost(pp.value),
                                       currentTotalServiceCost(ps.value)))
        /\ processedProducts = Some(calculateDistributedCosts(pp.value, ps.value))

IndependentResults ==
    /\ Len(timers) <= 1
    /\ isLoading <=> timers # <<>>
    /\ isLoading => NoResults /\ error = Null
    /\ (~isLoading /\ processedProducts # Null) =>
         /\ error = Null
         /\ lastRun # Null
         /\ DerivedFrom(Value(lastRun).productsFileContent,
                        Value(lastRun).servicesFileContent)

====
